---- MODULE Spec2Model ----
(***************************************************************************)
(* The rate limiter middleware of the transactions router                 *)
(* (src/src/routes/transactions.route.ts, class RateLimiter; compiled     *)
(* copy in src/dist/middleware/rateLimiter.js).                           *)
(*                                                                         *)
(* The store is a JavaScript Map: a sequence of <<ip, client>> entries in *)
(* insertion order.  A client is a record {count, lastRequest} with an    *)
(* optional field blockedUntil (in the record's DOMAIN or not).           *)
(* Node runs limit() and cleanup() to completion on one thread, so each   *)
(* is one atomic action.  Date.now() is the variable now, which only the  *)
(* environment advances and which never decreases.                        *)
(***************************************************************************)
EXTENDS Integers, Sequences, FiniteSets, TLC

VARIABLES
    maxRequests,      \* this.maxRequests
    windowMs,         \* this.windowMs
    blockDurationMs,  \* this.blockDurationMs
    maxEntries,       \* this.maxEntries
    store,            \* this.store, entries in insertion order
    now,              \* Date.now()
    resp,             \* what the latest limit() call did with res and next
    since,            \* history: per client, the call that created its record and the calls since
    retry,            \* history: per client, the retryAfter of its latest rejection
    lastCall,         \* history: per client, the time of its latest limit() call
    blockEnd,         \* history: per client, the blockedUntil its latest block was given
    solo,             \* the store of a second limiter that only sees client "B" (and the sweeps)
    soloResp,         \* what the second limiter's latest limit() call did
    calls,            \* history: per client, the times of its latest maxRequests + 1 calls
    paced,            \* history: per client, it never exceeded maxRequests calls per window
    pc,               \* the next step of the scripted client (SpecScenario)
    req,              \* the latest HTTP request: forwarded header, peer address, method, path
    served,           \* the route handlers the latest request reached, in order
    ends,             \* history: per identifier, the blockedUntil limit() last set for it
    cleanupInterval,  \* this.cleanupInterval: the timer's period and whether it is still set
    down,             \* history: shutdown() has been called
    lateSweep,        \* history: cleanup() has run after shutdown()
    lateCall,         \* history: limit() has run after shutdown()
    args,             \* the arguments the constructor was called with
    sweepDue,         \* when the timer fires next (SpecConstruct)
    running,          \* the callbacks begun and not yet returned, with their locals (SpecLoop)
    table,            \* the ids of the rows of table TransactionMovement (SpecDelete)
    issued,           \* the ids crypto.randomUUID() has returned
    deleting          \* the DELETE /:id handlers: id, the await each is at, its answer

config == <<maxRequests, windowMs, blockDurationMs, maxEntries>>
history == <<since, retry, lastCall, blockEnd>>
twin == <<solo, soloResp>>
pace == <<calls, paced>>
http == <<req, served, ends>>
life == <<cleanupInterval, down, lateSweep, lateCall>>
built == <<args, sweepDue>>
loop == <<running>>
db == <<table, issued, deleting>>
vars == <<config, store, now, resp, history, twin, pace, pc, http, life, built, loop, db>>

\* ------------------------------------------------------------------ bounds

\* The clock advances in steps of StepMs, at most MaxTicks times.
StepMs == 500
MaxTicks == 3
MaxHeaderLen == 3
MaxSweeps == 2
MaxDeletes == 3

Clients == {"A", "B", "C"}

\* The clients that call in Spec, SpecTwin and SpecPace; SpecSweep has all of Clients call.
Pair == {"A", "B"}

\* The configurations explored (constructor arguments).
MaxRequestsChoices == {0, 1, 2}
WindowChoices == {500, 1000}
BlockChoices == {500, 1500}
MaxEntriesChoices == {1, 2}

\* SpecSweep: three clients against a store of 0, 1 or 2 entries.
SweepEntriesChoices == {0, 1, 2}

\* SpecScenario: the times of the scripted client's calls, in order:
\* ten at 0, then one each at 500, 1000 and 3600600.
Script ==
    [k \in 1..13 |->
        IF k <= 10 THEN 0
        ELSE IF k = 11 THEN 500
        ELSE IF k = 12 THEN 1000
        ELSE 3600600]

\* --------------------------------------------------------------- constants

MsPerSecond == 1000

\* new RateLimiter(10, 60000, 3600000) of the transactions router, and the
\* constructor's default for maxEntries.
RouterMaxRequests == 10
RouterWindowMs == 60000
RouterBlockDurationMs == 3600000
DefaultMaxEntries == 5000

\* The constructor's other defaults, and the period given to setInterval.
DefaultMaxRequests == 10
DefaultWindowMs == 60000
DefaultBlockDurationMs == 3600000
SweepIntervalMs == 300000

\* --------------------------------------------------------- the Map helpers

Keys(s) == {s[i][1] : i \in 1..Len(s)}

Has(s, ip) == ip \in Keys(s)

\* Map.get: the client stored under ip (callers test Has first).
Get(s, ip) == s[CHOOSE i \in 1..Len(s) : s[i][1] = ip][2]

\* Map.set: a new key goes to the end, an existing key keeps its place.
MapSet(s, ip, client) ==
    IF Has(s, ip)
    THEN [i \in 1..Len(s) |-> IF s[i][1] = ip THEN <<ip, client>> ELSE s[i]]
    ELSE Append(s, <<ip, client>>)

\* Map.delete of every key in ips; the other entries keep their order.
MapDeleteAll(s, ips) == SelectSeq(s, LAMBDA e : e[1] \notin ips)

\* Faulty variant: the quotient rounded down.
FloorDiv(x, d) == x \div d

\* Math.ceil(x / d) on integers.
CeilDiv(x, d) == 0 - ((0 - x) \div d)

\* JavaScript truthiness of client.blockedUntil: present and not 0.
BlockedUntilSet(client) ==
    /\ "blockedUntil" \in DOMAIN client
    /\ client.blockedUntil # 0

\* ------------------------------------------------------------------ limit

\* Number.prototype.toString() of an integer: its decimal digits, as a sequence
\* of characters, with a leading "-" when negative.
DigitChar == [d \in 0..9 |-> CASE d = 0 -> "0" [] d = 1 -> "1" [] d = 2 -> "2"
                                [] d = 3 -> "3" [] d = 4 -> "4" [] d = 5 -> "5"
                                [] d = 6 -> "6" [] d = 7 -> "7" [] d = 8 -> "8"
                                [] OTHER -> "9"]

RECURSIVE Digits(_)
Digits(n) == IF n < 10 THEN <<DigitChar[n]>> ELSE Append(Digits(n \div 10), DigitChar[n % 10])

NumToString(n) == IF n < 0 THEN <<"-">> \o Digits(0 - n) ELSE Digits(n)

\* What a limit() call did with res and next: the status set, the Retry-After
\* header (as set by res.set), the JSON body's fields (retryAfter is
\* retryAfterSeconds), how many bodies were sent, and whether next() was called.
NoResp ==
    [ip |-> "", status |-> 0, retryAfter |-> 0, next |-> FALSE,
     header |-> <<>>, error |-> "", sent |-> 0]

\* Faulty variant: the header carries milliseconds.
RejectHeaderMs(ip, retryAfter) ==
    [ip |-> ip, status |-> 429, retryAfter |-> retryAfter, next |-> FALSE,
     header |-> NumToString(retryAfter * MsPerSecond),
     error |-> "Too many requests, please try again later", sent |-> 1]

Reject(ip, retryAfter) ==
    [ip |-> ip, status |-> 429, retryAfter |-> retryAfter, next |-> FALSE,
     header |-> NumToString(retryAfter),
     error |-> "Too many requests, please try again later", sent |-> 1]

Admit(ip) ==
    [ip |-> ip, status |-> 0, retryAfter |-> 0, next |-> TRUE,
     header |-> <<>>, error |-> "", sent |-> 0]

\* What a call that throws leaves behind: no response, next() not called.
Thrown(ip) ==
    [ip |-> ip, status |-> 500, retryAfter |-> 0, next |-> FALSE,
     header |-> <<>>, error |-> "TypeError", sent |-> 0]

\* Faulty variant: the block still holds at the instant blockedUntil.
IsBlockedInclusive(s, ip, t) ==
    /\ Has(s, ip)
    /\ BlockedUntilSet(Get(s, ip))
    /\ Get(s, ip).blockedUntil >= t

\* "Check if client is currently blocked"
IsBlocked(s, ip, t) ==
    /\ Has(s, ip)
    /\ BlockedUntilSet(Get(s, ip))
    /\ Get(s, ip).blockedUntil > t

\* Faulty variant: the counter is never reset.
TouchNoReset(s, ip, t, window) ==
    IF ~Has(s, ip)
    THEN MapSet(s, ip, [count |-> 1, lastRequest |-> t])
    ELSE LET client == Get(s, ip)
         IN  MapSet(s, ip, [client EXCEPT !.count = client.count + 1,
                                          !.lastRequest = t])

\* Faulty variant: a gap of exactly the window resets the counter.
TouchResetAtWindow(s, ip, t, window) ==
    IF ~Has(s, ip)
    THEN MapSet(s, ip, [count |-> 1, lastRequest |-> t])
    ELSE LET client == Get(s, ip)
             counted == IF t - client.lastRequest >= window
                        THEN [client EXCEPT !.count = 1]
                        ELSE [client EXCEPT !.count = client.count + 1]
         IN  MapSet(s, ip, [counted EXCEPT !.lastRequest = t])

\* Faulty variant: the record of a new client is not stored.
TouchForgetsNew(s, ip, t, window) ==
    IF ~Has(s, ip)
    THEN s
    ELSE LET client == Get(s, ip)
             counted == IF t - client.lastRequest > window
                        THEN [client EXCEPT !.count = 1]
                        ELSE [client EXCEPT !.count = client.count + 1]
         IN  MapSet(s, ip, [counted EXCEPT !.lastRequest = t])

\* Faulty variant: the counter is reset only after twice the window.
TouchResetLate(s, ip, t, window) ==
    IF ~Has(s, ip)
    THEN MapSet(s, ip, [count |-> 1, lastRequest |-> t])
    ELSE LET client == Get(s, ip)
             counted == IF t - client.lastRequest > 2 * window
                        THEN [client EXCEPT !.count = 1]
                        ELSE [client EXCEPT !.count = client.count + 1]
         IN  MapSet(s, ip, [counted EXCEPT !.lastRequest = t])

\* Faulty variant: a new client's record starts at count 0.
TouchFromZero(s, ip, t, window) ==
    IF ~Has(s, ip)
    THEN MapSet(s, ip, [count |-> 0, lastRequest |-> t])
    ELSE LET client == Get(s, ip)
             counted == IF t - client.lastRequest > window
                        THEN [client EXCEPT !.count = 1]
                        ELSE [client EXCEPT !.count = client.count + 1]
         IN  MapSet(s, ip, [counted EXCEPT !.lastRequest = t])

\* "Initialize or update client record"
Touch(s, ip, t, window) ==
    IF ~Has(s, ip)
    THEN MapSet(s, ip, [count |-> 1, lastRequest |-> t])
    ELSE LET client == Get(s, ip)
             counted == IF t - client.lastRequest > window
                        THEN [client EXCEPT !.count = 1]
                        ELSE [client EXCEPT !.count = client.count + 1]
         IN  MapSet(s, ip, [counted EXCEPT !.lastRequest = t])

\* client.blockedUntil = value, on a record that may not have the field yet.
WithBlockedUntil(client, value) ==
    [f \in DOMAIN client \cup {"blockedUntil"} |->
        IF f = "blockedUntil" THEN value ELSE client[f]]

\* Faulty variants: the comparison off by one, either way.
ExceededAtLimit(client, max) == client.count >= max

ExceededLate(client, max) == client.count > max + 1

\* "Check if limit exceeded"
Exceeded(client, max) == client.count > max

\* Faulty variant: a request made while blocked is counted.
BlockedResultCounting(s, ip, t) ==
    [store |-> MapSet(s, ip, [Get(s, ip) EXCEPT !.count = @ + 1]),
     resp |-> Reject(ip, CeilDiv(Get(s, ip).blockedUntil - t, MsPerSecond))]

\* Faulty variant: the time already passed is not subtracted.
BlockedResultFromZero(s, ip, t) ==
    [store |-> s,
     resp |-> Reject(ip, CeilDiv(Get(s, ip).blockedUntil, MsPerSecond))]

\* Faulty variant: a request made while blocked refreshes lastRequest.
BlockedResultTouching(s, ip, t) ==
    [store |-> MapSet(s, ip, [Get(s, ip) EXCEPT !.lastRequest = t]),
     resp |-> Reject(ip, CeilDiv(Get(s, ip).blockedUntil - t, MsPerSecond))]

\* The early return for a client that is blocked: the store is only read.
BlockedResult(s, ip, t) ==
    [store |-> s,
     resp |-> Reject(ip, CeilDiv(Get(s, ip).blockedUntil - t, MsPerSecond))]

\* limit() on store s for client ip at time t: the store and the response
\* after. (this.store.get(ip)! would make the call throw had the record not
\* been stored.)
LimitResult(s, ip, t, max, window, block) ==
    IF IsBlocked(s, ip, t)
    THEN BlockedResult(s, ip, t)
    ELSE LET touched == Touch(s, ip, t, window)
             currentClient == Get(touched, ip)
         IN  IF ~Has(touched, ip)
             THEN [store |-> touched, resp |-> Thrown(ip)]
             ELSE IF Exceeded(currentClient, max)
             THEN [store |-> MapSet(touched, ip, WithBlockedUntil(currentClient, t + block)),
                   resp |-> Reject(ip, CeilDiv(block, MsPerSecond))]
             ELSE [store |-> touched, resp |-> Admit(ip)]

\* ---------------------------------------------------------------- cleanup

\* entries.sort((a, b) => b[1].lastRequest - a[1].lastRequest): a stable sort,
\* most recent first; entries that tie keep their insertion order.
RECURSIVE SortEntries(_)
SortEntries(s) ==
    IF s = <<>>
    THEN <<>>
    ELSE LET rest == SortEntries(SubSeq(s, 1, Len(s) - 1))
             e == s[Len(s)]
         IN  SelectSeq(rest, LAMBDA x : x[2].lastRequest >= e[2].lastRequest)
               \o <<e>>
               \o SelectSeq(rest, LAMBDA x : x[2].lastRequest < e[2].lastRequest)

\* Faulty variant: the loop deletes from the front, the most recent entries.
EvictedFromFront(s, cap) ==
    LET entries == SortEntries(s)
    IN  IF Len(entries) > cap
        THEN {entries[i][1] : i \in 1..(Len(entries) - cap)}
        ELSE {}

\* Faulty variant: a store that is exactly full is trimmed too.
EvictedAtCapacity(s, cap) ==
    LET entries == SortEntries(s)
    IN  IF Len(entries) >= cap
        THEN {entries[i][1] : i \in (IF cap = 0 THEN 1 ELSE cap)..Len(entries)}
        ELSE {}

\* Faulty variant: the entries are not sorted before the loop.
EvictedUnsorted(s, cap) ==
    IF Len(s) > cap
    THEN {s[i][1] : i \in (cap + 1)..Len(s)}
    ELSE {}

\* The keys the eviction loop deletes: entries[maxEntries .. length-1].
Evicted(s, cap) ==
    LET entries == SortEntries(s)
    IN  IF Len(entries) > cap
        THEN {entries[i][1] : i \in (cap + 1)..Len(entries)}
        ELSE {}

\* Faulty variant: a block is cleared only after the instant blockedUntil.
ClearExpiredStrict(client, t) ==
    IF BlockedUntilSet(client) /\ client.blockedUntil < t
    THEN [f \in DOMAIN client \ {"blockedUntil"} |-> client[f]]
    ELSE client

\* Faulty variant: every block is cleared, expired or not.
ClearExpiredAll(client, t) ==
    IF BlockedUntilSet(client)
    THEN [f \in DOMAIN client \ {"blockedUntil"} |-> client[f]]
    ELSE client

\* "Remove expired blocks"
ClearExpired(client, t) ==
    IF BlockedUntilSet(client) /\ client.blockedUntil <= t
    THEN [f \in DOMAIN client \ {"blockedUntil"} |-> client[f]]
    ELSE client

\* A sweep without its last loop: the eviction alone.
EvictOnly(s, cap) == MapDeleteAll(s, Evicted(s, cap))

CleanupResult(s, t, cap) ==
    LET kept == MapDeleteAll(s, Evicted(s, cap))
    IN  [i \in 1..Len(kept) |-> <<kept[i][1], ClearExpired(kept[i][2], t)>>]

\* ---------------------------------------------------------------- actions

Min(a, b) == IF a < b THEN a ELSE b

\* No request has arrived yet.
NoRequest == [forwarded |-> <<>>, remoteAddress |-> <<>>, method |-> "", path |-> ""]

\* The arguments of the constructor, left to right; a parameter takes its
\* default when no argument is given for it, and arguments past the fourth
\* are ignored. The timer's period is not a parameter.
Arg(a, i, default) == IF i <= Len(a) THEN a[i] ELSE default

\* Faulty variant: a fifth argument sets the timer's period.
ConstructFive(a) ==
    [maxRequests |-> Arg(a, 1, DefaultMaxRequests),
     windowMs |-> Arg(a, 2, DefaultWindowMs),
     blockDurationMs |-> Arg(a, 3, DefaultBlockDurationMs),
     maxEntries |-> Arg(a, 4, DefaultMaxEntries),
     sweepMs |-> Arg(a, 5, SweepIntervalMs)]

Construct(a) ==
    [maxRequests |-> Arg(a, 1, DefaultMaxRequests),
     windowMs |-> Arg(a, 2, DefaultWindowMs),
     blockDurationMs |-> Arg(a, 3, DefaultBlockDurationMs),
     maxEntries |-> Arg(a, 4, DefaultMaxEntries),
     sweepMs |-> SweepIntervalMs]

\* The limiter as new RateLimiter(...a) leaves it.
Built(a) ==
    LET c == Construct(a)
    IN  /\ args = a
        /\ maxRequests = c.maxRequests
        /\ windowMs = c.windowMs
        /\ blockDurationMs = c.blockDurationMs
        /\ maxEntries = c.maxEntries
        /\ cleanupInterval = [every |-> c.sweepMs, active |-> TRUE]
        /\ sweepDue = c.sweepMs

\* The DELETE handlers the model follows.
Slots == 1..MaxDeletes

\* A handler that has not been given a request.
Idle == [id |-> "", at |-> "idle", status |-> 0, absent |-> FALSE]

\* The table is empty and no DELETE request has arrived.
NoDeletes ==
    /\ table = {}
    /\ issued = {}
    /\ deleting = [i \in Slots |-> Idle]

\* Nothing has been asked of the limiter yet.
Quiet ==
    /\ resp = NoResp
    /\ since = [c \in Clients |-> [t0 |-> 0, n |-> 0]]
    /\ retry = [c \in Clients |-> 0]
    /\ lastCall = [c \in Clients |-> <<>>]
    /\ blockEnd = [c \in Clients |-> <<>>]
    /\ soloResp = NoResp
    /\ calls = [c \in Clients |-> <<>>]
    /\ paced = [c \in Clients |-> TRUE]
    /\ pc = 1
    /\ served = <<>>
    /\ ends = <<>>
    /\ down = FALSE
    /\ lateSweep = FALSE
    /\ lateCall = FALSE
    /\ running = <<>>
    /\ NoDeletes

Fresh ==
    /\ store = <<>>
    /\ solo = <<>>
    /\ now = 0
    /\ Quiet

\* A limiter built with the configuration chosen, before any request.
Start ==
    /\ Built(<<maxRequests, windowMs, blockDurationMs, maxEntries>>)
    /\ Fresh
    /\ req = NoRequest

Init ==
    /\ maxRequests \in MaxRequestsChoices
    /\ windowMs \in WindowChoices
    /\ blockDurationMs \in BlockChoices
    /\ maxEntries \in MaxEntriesChoices
    /\ Start

\* The limit() middleware for one request of client ip.
LimitCall(ip) ==
    LET r == LimitResult(store, ip, now, maxRequests, windowMs, blockDurationMs)
    IN  /\ store' = r.store
        /\ resp' = r.resp
        /\ UNCHANGED <<config, now>>

\* What the history variables record of a limit() call.
Observe(ip) ==
    /\ since' = [since EXCEPT ![ip] =
           IF ~Has(store, ip)
           THEN [t0 |-> now, n |-> 1]
           ELSE [@ EXCEPT !.n = Min(@ + 1, maxRequests + 2)]]
    /\ retry' = [retry EXCEPT ![ip] =
           IF resp'.status = 429 THEN resp'.retryAfter ELSE @]
    /\ lastCall' = [lastCall EXCEPT ![ip] = <<now>>]
    /\ blockEnd' = [blockEnd EXCEPT ![ip] =
           IF IsBlocked(store, ip, now)
           THEN @
           ELSE IF resp'.status = 429
                THEN <<Get(store', ip).blockedUntil>>
                ELSE <<>>]

Limit(ip) ==
    /\ LimitCall(ip)
    /\ Observe(ip)
    /\ UNCHANGED <<twin, pace, pc, http, life, built, loop, db>>

\* The setInterval callback: it runs while the timer is set.
Cleanup ==
    /\ cleanupInterval.active
    /\ store' = CleanupResult(store, now, maxEntries)
    /\ lateSweep' = (lateSweep \/ down)
    /\ UNCHANGED <<config, now, resp, history, twin, pace, pc, http, built, loop, db>>
    /\ UNCHANGED <<cleanupInterval, down, lateCall>>

\* Time passes.
Tick ==
    /\ now + StepMs <= MaxTicks * StepMs
    /\ now' = now + StepMs
    /\ UNCHANGED <<config, store, resp, history, twin, pace, pc, http, life, built, loop, db>>

Next ==
    \/ \E ip \in Pair : Limit(ip)
    \/ Cleanup
    \/ Tick

Spec == Init /\ [][Next]_vars

\* ------------------------------------------------ SpecSweep: three clients

InitSweep ==
    /\ maxRequests = 1
    /\ windowMs \in {500}
    /\ blockDurationMs \in {1500}
    /\ maxEntries \in SweepEntriesChoices
    /\ Start

SweepLimit(ip) ==
    /\ LimitCall(ip)
    /\ UNCHANGED <<history, twin, pace, pc, http, life, built, loop, db>>

NextSweep ==
    \/ \E ip \in Clients : SweepLimit(ip)
    \/ Cleanup
    \/ Tick

SpecSweep == InitSweep /\ [][NextSweep]_vars

\* --------------------------------- SpecTwin: the same run without client A

\* A second limiter receives client B's requests and the sweeps at the same
\* times as the first, and none of the other clients' requests.
TwinLimit(ip) ==
    /\ LimitCall(ip)
    /\ IF ip = "B"
       THEN LET r == LimitResult(solo, ip, now, maxRequests, windowMs, blockDurationMs)
            IN  /\ solo' = r.store
                /\ soloResp' = r.resp
       ELSE UNCHANGED twin
    /\ UNCHANGED <<history, pace, pc, http, life, built, loop, db>>

TwinCleanup ==
    /\ cleanupInterval.active
    /\ store' = CleanupResult(store, now, maxEntries)
    /\ solo' = CleanupResult(solo, now, maxEntries)
    /\ UNCHANGED <<config, now, resp, soloResp, history, pace, pc, http, life, built, loop, db>>

NextTwin ==
    \/ \E ip \in Pair : TwinLimit(ip)
    \/ TwinCleanup
    \/ Tick

SpecTwin == Init /\ [][NextTwin]_vars

\* ------------------------- SpecLazy: the same run without block clearing

\* A second limiter receives the same requests at the same times, and its
\* sweeps stop after the eviction loop.
LazyLimit(ip) ==
    /\ LimitCall(ip)
    /\ LET r == LimitResult(solo, ip, now, maxRequests, windowMs, blockDurationMs)
       IN  /\ solo' = r.store
           /\ soloResp' = r.resp
    /\ UNCHANGED <<history, pace, pc, http, life, built, loop, db>>

LazyCleanup ==
    /\ cleanupInterval.active
    /\ store' = CleanupResult(store, now, maxEntries)
    /\ solo' = EvictOnly(solo, maxEntries)
    /\ UNCHANGED <<config, now, resp, soloResp, history, pace, pc, http, life, built, loop, db>>

NextLazy ==
    \/ \E ip \in Pair : LazyLimit(ip)
    \/ LazyCleanup
    \/ Tick

SpecLazy == Init /\ [][NextLazy]_vars

\* ------------------------------------ SpecLife: the limiter is shut down

\* Faulty variant: the timer is left running.
ShutdownKeepsTimer ==
    /\ ~down
    /\ down' = TRUE
    /\ UNCHANGED <<cleanupInterval, lateSweep, lateCall>>
    /\ UNCHANGED <<config, store, now, resp, history, twin, pace, pc, http, built, loop, db>>

\* shutdown(): clearInterval(this.cleanupInterval). (A second call changes
\* nothing.)
Shutdown ==
    /\ ~down
    /\ down' = TRUE
    /\ cleanupInterval' = [cleanupInterval EXCEPT !.active = FALSE]
    /\ UNCHANGED <<lateSweep, lateCall>>
    /\ UNCHANGED <<config, store, now, resp, history, twin, pace, pc, http, built, loop, db>>

LifeLimit(ip) ==
    /\ LimitCall(ip)
    /\ lateCall' = (lateCall \/ down)
    /\ UNCHANGED <<cleanupInterval, down, lateSweep>>
    /\ UNCHANGED <<history, twin, pace, pc, http, built, loop, db>>

NextLife ==
    \/ \E ip \in Pair : LifeLimit(ip)
    \/ Cleanup
    \/ Tick
    \/ Shutdown

SpecLife == Init /\ [][NextLife]_vars

\* ------------------------------ SpecRouter: the router and its middleware

\* Strings on the wire are sequences of characters; an optional value is <<>>
\* (undefined) or <<value>>.
WhiteSpace == {" ", "\t"}

\* forwarded.split(",")[0]: the characters before the first comma.
FirstField(h) ==
    IF \E i \in 1..Len(h) : h[i] = ","
    THEN SubSeq(h, 1, (CHOOSE i \in 1..Len(h) :
                          /\ h[i] = ","
                          /\ \A j \in 1..(i - 1) : h[j] # ",") - 1)
    ELSE h

\* String.prototype.trim().
RECURSIVE TrimStart(_)
TrimStart(h) ==
    IF h # <<>> /\ h[1] \in WhiteSpace THEN TrimStart(Tail(h)) ELSE h

RECURSIVE TrimEnd(_)
TrimEnd(h) ==
    IF h # <<>> /\ h[Len(h)] \in WhiteSpace
    THEN TrimEnd(SubSeq(h, 1, Len(h) - 1))
    ELSE h

Trim(h) == TrimEnd(TrimStart(h))

Unknown == <<"u", "n", "k", "n", "o", "w", "n">>

\* Faulty variant: the peer address is preferred to the header.
getClientIpPeerFirst(r) ==
    IF r.remoteAddress # <<>> /\ r.remoteAddress[1] # <<>>
    THEN r.remoteAddress[1]
    ELSE IF r.forwarded # <<>>
    THEN Trim(FirstField(r.forwarded[1]))
    ELSE Unknown

\* getClientIp(req); an empty remoteAddress is falsy, as an undefined one.
getClientIp(r) ==
    IF r.forwarded # <<>>
    THEN Trim(FirstField(r.forwarded[1]))
    ELSE IF r.remoteAddress # <<>> /\ r.remoteAddress[1] # <<>>
    THEN r.remoteAddress[1]
    ELSE Unknown

\* Faulty variant: the limiter is registered after the routes.
StackRoutesFirst ==
    << [method |-> "GET",    path |-> "/",    handler |-> "get"],
       [method |-> "POST",   path |-> "/",    handler |-> "post"],
       [method |-> "DELETE", path |-> "/:id", handler |-> "delete"],
       [method |-> "PATCH",  path |-> "/:id", handler |-> "patch"],
       [method |-> "*",      path |-> "*",    handler |-> "limit"] >>

\* The router's layers in the order they are registered: use(limit), then the
\* four routes.
Stack ==
    << [method |-> "*",      path |-> "*",    handler |-> "limit"],
       [method |-> "GET",    path |-> "/",    handler |-> "get"],
       [method |-> "POST",   path |-> "/",    handler |-> "post"],
       [method |-> "DELETE", path |-> "/:id", handler |-> "delete"],
       [method |-> "PATCH",  path |-> "/:id", handler |-> "patch"] >>

Matches(layer, r) ==
    /\ layer.method \in {"*", r.method}
    /\ layer.path \in {"*", r.path}

\* The router handles request r from layer i on, the store being s and the
\* limiter's response so far rs: the layers that match run in order, each
\* one only if the one before called next(). The route handlers never do.
RECURSIVE RunFrom(_, _, _, _)
RunFrom(i, r, s, rs) ==
    IF i > Len(Stack)
    THEN [store |-> s, resp |-> rs, served |-> <<>>]
    ELSE IF ~Matches(Stack[i], r)
    THEN RunFrom(i + 1, r, s, rs)
    ELSE IF Stack[i].handler = "limit"
    THEN LET res == LimitResult(s, getClientIp(r), now,
                                maxRequests, windowMs, blockDurationMs)
         IN  IF res.resp.next
             THEN LET rest == RunFrom(i + 1, r, res.store, res.resp)
                  IN  [rest EXCEPT !.served = <<"limit">> \o @]
             ELSE [store |-> res.store, resp |-> res.resp, served |-> <<"limit">>]
    ELSE [store |-> s, resp |-> rs, served |-> <<Stack[i].handler>>]

\* A request arrives at the transactions router.
Serve(r) ==
    LET out == RunFrom(1, r, store, NoResp)
    IN  /\ store' = out.store
        /\ resp' = out.resp
        /\ served' = out.served
        /\ req' = r
        /\ ends' = IF out.resp.status = 429 /\ ~IsBlocked(store, out.resp.ip, now)
                    THEN MapSet(ends, out.resp.ip,
                                Get(out.store, out.resp.ip).blockedUntil)
                    ELSE ends
        /\ UNCHANGED <<config, now, history, twin, pace, pc, life, built, loop, db>>

Peers == {<<"p">>, <<"q">>}
Methods == {"GET", "POST", "DELETE", "PATCH", "PUT"}
Paths == {"/", "/:id"}

RouterRequests ==
    [forwarded : {<<>>}, remoteAddress : {<<p>> : p \in Peers},
     method : Methods, path : Paths]

InitRouter ==
    /\ Built(<<1, 500, 1500, 2>>)
    /\ Fresh
    /\ req = NoRequest

NextRouter ==
    \/ \E r \in RouterRequests : Serve(r)
    \/ Cleanup
    \/ Tick

SpecRouter == InitRouter /\ [][NextRouter]_vars

\* ------------------------- SpecUnknown: requests without an address

\* Requests for which no address can be determined: no x-forwarded-for
\* header, and a socket whose remoteAddress is undefined or empty.
Unaddressed ==
    [forwarded : {<<>>}, remoteAddress : {<<>>, << <<>> >>},
     method : {"GET", "POST"}, path : {"/"}]

\* A request of peer p.
Addressed ==
    [forwarded : {<<>>}, remoteAddress : {<< <<"p">> >>},
     method : {"GET"}, path : {"/"}]

InitUnknown ==
    /\ \E max \in {1, 2}, cap \in {1, 2} : Built(<<max, 500, 1500, cap>>)
    /\ Fresh
    /\ req = NoRequest

NextUnknown ==
    \/ \E r \in Unaddressed \cup Addressed : Serve(r)
    \/ Cleanup
    \/ Tick

SpecUnknown == InitUnknown /\ [][NextUnknown]_vars

\* ------------------------------------- SpecIp: who a request is counted as

Alphabet == {"a", "b", ",", " "}

RECURSIVE Strings(_)
Strings(n) ==
    IF n = 0 THEN {<<>>}
    ELSE LET shorter == Strings(n - 1)
         IN  shorter \cup {Append(h, c) : h \in shorter, c \in Alphabet}

\* The header absent or any string of at most MaxHeaderLen characters; the
\* peer address undefined, empty or p.
IpRequests ==
    [forwarded : {<<>>} \cup {<<h>> : h \in Strings(MaxHeaderLen)},
     remoteAddress : {<<>>, << <<>> >>, << <<"p">> >>},
     method : {"GET"}, path : {"/"}]

InitIp ==
    /\ Built(<<1, 500, 1500, 2>>)
    /\ Fresh
    /\ req \in IpRequests

\* The client sends its request (again).
Resend == Serve(req)

NextIp == Resend

SpecIp == InitIp /\ [][NextIp]_vars

\* -------------------------------- SpecAny: any request, and the sweeps

\* A limiter that keeps no record at a sweep, or up to two.
InitAny ==
    /\ \E cap \in {0, 2} : Built(<<1, 500, 1500, cap>>)
    /\ Fresh
    /\ req \in IpRequests

NextAny ==
    \/ Resend
    \/ Cleanup
    \/ Tick

SpecAny == InitAny /\ [][NextAny]_vars

\* ------------------------- SpecConstruct: the constructor and its timer

ArgValues == {1, 2}

\* Up to five arguments.
ArgChoices == UNION {[1..n -> ArgValues] : n \in 0..5}

InitConstruct ==
    /\ \E a \in ArgChoices : Built(a)
    /\ Fresh
    /\ req = NoRequest

BuiltLimit(ip) ==
    /\ LimitCall(ip)
    /\ UNCHANGED <<history, twin, pace, pc, http, life, built, loop, db>>

\* Time passes until the timer is due.
AwaitTimer ==
    /\ cleanupInterval.active
    /\ now < sweepDue
    /\ sweepDue <= MaxSweeps * cleanupInterval.every
    /\ now' = sweepDue
    /\ UNCHANGED <<config, store, resp, history, twin, pace, pc, http, life, built, loop, db>>

\* The timer set by setInterval fires: cleanup() runs, and the timer is due
\* again one period later.
TimerFires ==
    /\ cleanupInterval.active
    /\ now = sweepDue
    /\ store' = CleanupResult(store, now, maxEntries)
    /\ sweepDue' = sweepDue + cleanupInterval.every
    /\ UNCHANGED <<config, now, resp, history, twin, pace, pc, http, life, args, loop, db>>

NextConstruct ==
    \/ \E ip \in Pair : BuiltLimit(ip)
    \/ AwaitTimer
    \/ TimerFires

SpecConstruct == InitConstruct /\ [][NextConstruct]_vars

\* ----------------------- SpecLoop: the callbacks statement by statement

\* limit() and cleanup() are synchronous functions run by Node's event loop,
\* which starts a callback only when no other is on the stack. A frame of
\* running holds a callback's position and locals: the time it read, the
\* record it got from the store, the keys it is still to delete.

\* Faulty variant: a callback starts while another is in progress.
CanStartAnytime == Len(running) < 2

CanStart == running = <<>>

Return(i) == [k \in 1..(Len(running) - 1) |-> IF k < i THEN running[k] ELSE running[k + 1]]

\* The keys of entries[maxEntries ..], in the order the loop deletes them.
Doomed(s, cap) ==
    LET entries == SortEntries(s)
    IN  IF Len(entries) > cap
        THEN [k \in 1..(Len(entries) - cap) |-> entries[cap + k][1]]
        ELSE <<>>

\* limit() is called: const now = Date.now(); let client = this.store.get(ip).
\* (The second limiter, solo, handles the same call in one step.)
BeginLimit(ip) ==
    /\ CanStart
    /\ running' = Append(running,
           [kind |-> "limit", pc |-> "check", ip |-> ip, t |-> now,
            client |-> IF Has(store, ip) THEN <<Get(store, ip)>> ELSE <<>>,
            doomed |-> <<>>])
    /\ LET r == LimitResult(solo, ip, now, maxRequests, windowMs, blockDurationMs)
       IN  /\ solo' = r.store
           /\ soloResp' = r.resp
    /\ UNCHANGED <<config, store, now, resp, history, pace, pc, http, life, built, db>>

\* The next statement of a limit() call in progress.
StepLimit(i) ==
    LET f == running[i]
        local == IF f.client = <<>> THEN <<>> ELSE << <<f.ip, f.client[1]>> >>
    IN  /\ f.kind = "limit"
        /\ CASE f.pc = "check" ->
                  IF IsBlocked(local, f.ip, f.t)
                  THEN /\ resp' = BlockedResult(local, f.ip, f.t).resp
                       /\ running' = Return(i)
                       /\ UNCHANGED store
                  ELSE /\ running' = [running EXCEPT ![i].pc = "touch"]
                       /\ UNCHANGED <<store, resp>>
             [] f.pc = "touch" ->
                  /\ store' = MapSet(store, f.ip,
                                     Get(Touch(local, f.ip, f.t, windowMs), f.ip))
                  /\ running' = [running EXCEPT ![i].pc = "exceed"]
                  /\ UNCHANGED resp
             [] OTHER ->
                  IF ~Has(store, f.ip)
                  THEN /\ resp' = Thrown(f.ip)
                       /\ running' = Return(i)
                       /\ UNCHANGED store
                  ELSE LET currentClient == Get(store, f.ip)
                       IN  /\ running' = Return(i)
                           /\ IF Exceeded(currentClient, maxRequests)
                              THEN /\ store' = MapSet(store, f.ip,
                                          WithBlockedUntil(currentClient, f.t + blockDurationMs))
                                   /\ resp' = Reject(f.ip, CeilDiv(blockDurationMs, MsPerSecond))
                              ELSE /\ resp' = Admit(f.ip)
                                   /\ UNCHANGED store
        /\ UNCHANGED <<config, now, history, twin, pace, pc, http, life, built, db>>

\* The timer calls cleanup(): const now = Date.now(); the entries are copied
\* and sorted.
BeginCleanup ==
    /\ CanStart
    /\ cleanupInterval.active
    /\ running' = Append(running,
           [kind |-> "cleanup", pc |-> "evict", ip |-> "", t |-> now,
            client |-> <<>>, doomed |-> Doomed(store, maxEntries)])
    /\ solo' = CleanupResult(solo, now, maxEntries)
    /\ UNCHANGED <<config, store, now, resp, soloResp, history, pace, pc, http, life, built, db>>

\* The next statement of a cleanup() call in progress: one store.delete, or
\* the loop that removes the expired blocks.
StepCleanup(i) ==
    LET f == running[i]
    IN  /\ f.kind = "cleanup"
        /\ IF f.pc = "evict" /\ f.doomed # <<>>
           THEN /\ store' = MapDeleteAll(store, {Head(f.doomed)})
                /\ running' = [running EXCEPT ![i].doomed = Tail(f.doomed)]
           ELSE IF f.pc = "evict"
           THEN /\ running' = [running EXCEPT ![i].pc = "clear"]
                /\ UNCHANGED store
           ELSE /\ store' = [k \in 1..Len(store) |->
                                <<store[k][1], ClearExpired(store[k][2], f.t)>>]
                /\ running' = Return(i)
        /\ UNCHANGED <<config, now, resp, history, twin, pace, pc, http, life, built, db>>

InitLoop ==
    /\ \E max \in {1, 2}, cap \in {1, 2} : Built(<<max, 500, 1500, cap>>)
    /\ Fresh
    /\ req = NoRequest

NextLoop ==
    \/ \E ip \in Pair : BeginLimit(ip)
    \/ \E i \in 1..Len(running) : StepLimit(i)
    \/ BeginCleanup
    \/ \E i \in 1..Len(running) : StepCleanup(i)
    \/ Tick

SpecLoop == InitLoop /\ [][NextLoop]_vars

\* ------------------------- SpecOrder: the same records in another order

\* The orders in which the three clients may have been inserted.
Orders == {o \in [1..3 -> Clients] : \A i, j \in 1..3 : i # j => o[i] # o[j]}

\* Two limiters hold the same three records, each client's last request
\* admitted at 0, StepMs or 2 * StepMs, inserted in any two orders.
InitOrder ==
    /\ \E cap \in SweepEntriesChoices : Built(<<1, 500, 1500, cap>>)
    /\ \E times \in [Clients -> {0, StepMs, 2 * StepMs}], o1 \in Orders, o2 \in Orders :
          /\ store = [i \in 1..3 |-> <<o1[i], [count |-> 1, lastRequest |-> times[o1[i]]]>>]
          /\ solo = [i \in 1..3 |-> <<o2[i], [count |-> 1, lastRequest |-> times[o2[i]]]>>]
    /\ now = 2 * StepMs
    /\ Quiet
    /\ req = NoRequest

NextOrder == TwinCleanup

SpecOrder == InitOrder /\ [][NextOrder]_vars

\* ------------------------------------- SpecPace: how fast each client calls

\* calls[ip] keeps the times of the client's latest maxRequests + 1 calls;
\* paced[ip] turns FALSE when maxRequests + 1 calls fall within windowMs.
PaceLimit(ip) ==
    /\ LimitCall(ip)
    /\ LET all == Append(calls[ip], now)
           kept == IF Len(all) > maxRequests + 1 THEN Tail(all) ELSE all
       IN  /\ calls' = [calls EXCEPT ![ip] = kept]
           /\ paced' = [paced EXCEPT ![ip] =
                  /\ @
                  /\ ~(/\ Len(kept) = maxRequests + 1
                       /\ kept[Len(kept)] - kept[1] <= windowMs)]
    /\ UNCHANGED <<history, twin, pc, http, life, built, loop, db>>

NextPace ==
    \/ \E ip \in Pair : PaceLimit(ip)
    \/ Cleanup
    \/ Tick

SpecPace == Init /\ [][NextPace]_vars

\* ------------------------------ SpecAdmit: when each client is admitted

\* Here calls[ip] keeps the times of the client's latest maxRequests + 1
\* admitted calls; paced[ip] turns FALSE when maxRequests + 1 of them fall
\* within windowMs.
AdmitLimit(ip) ==
    /\ LimitCall(ip)
    /\ LET all == IF resp'.next THEN Append(calls[ip], now) ELSE calls[ip]
           kept == IF Len(all) > maxRequests + 1 THEN Tail(all) ELSE all
       IN  /\ calls' = [calls EXCEPT ![ip] = kept]
           /\ paced' = [paced EXCEPT ![ip] =
                  /\ @
                  /\ ~(/\ Len(kept) = maxRequests + 1
                       /\ kept[Len(kept)] - kept[1] <= windowMs)]
    /\ UNCHANGED <<history, twin, pc, http, life, built, loop, db>>

InitAdmit ==
    /\ \E max \in {1, 2}, window \in WindowChoices, cap \in MaxEntriesChoices :
          Built(<<max, window, 1500, cap>>)
    /\ Fresh
    /\ req = NoRequest

NextAdmit ==
    \/ \E ip \in Pair : AdmitLimit(ip)
    \/ Cleanup
    \/ Tick

SpecAdmit == InitAdmit /\ [][NextAdmit]_vars

\* ------------------------- SpecScenario: the router's limiter and a script

\* new RateLimiter(10, 60000, 3600000)
InitScenario ==
    /\ Built(<<RouterMaxRequests, RouterWindowMs, RouterBlockDurationMs>>)
    /\ Fresh
    /\ req = NoRequest

\* Client A makes its next scripted call.
ScriptedLimit ==
    /\ pc <= Len(Script)
    /\ now = Script[pc]
    /\ LimitCall("A")
    /\ pc' = pc + 1
    /\ UNCHANGED <<history, twin, pace, http, life, built, loop, db>>

\* Time passes until the scripted client's next call.
ScenarioTick ==
    /\ pc <= Len(Script)
    /\ now < Script[pc]
    /\ now' = Script[pc]
    /\ UNCHANGED <<config, store, resp, history, twin, pace, pc, http, life, built, loop, db>>

\* Another client calls in between.
OtherLimit ==
    /\ LimitCall("B")
    /\ UNCHANGED <<history, twin, pace, pc, http, life, built, loop, db>>

NextScenario ==
    \/ ScriptedLimit
    \/ ScenarioTick
    \/ OtherLimit
    \/ Cleanup

SpecScenario == InitScenario /\ [][NextScenario]_vars

\* ----------------------------------------------------------------- claims

Admitted(r) == r.next /\ r.status # 429

Rejected(r) == ~r.next /\ r.status = 429

\* n = ceil(x / 1000), stated without CeilDiv.
IsCeilSeconds(n, x) == n * MsPerSecond >= x /\ (n - 1) * MsPerSecond < x

\* The record of ip holds a block that is still in the future.
ActiveBlock(ip) ==
    /\ Has(store, ip)
    /\ "blockedUntil" \in DOMAIN Get(store, ip)
    /\ now < Get(store, ip).blockedUntil

\* C1: a client with no record in the store makes at most maxRequests limit()
\* calls, all within windowMs of the first: every one of them is admitted.
\* (since[ip] counts the calls from the one that created the client's record.)
C1_AdmittedUpToMax ==
    [][\A ip \in Clients :
          (Limit(ip) /\ since'[ip].n <= maxRequests
                     /\ now - since'[ip].t0 <= windowMs)
          => Admitted(resp')]_vars

C1_Witness ==
    /\ maxRequests = 2
    /\ since["A"].n = 2
    /\ lastCall["A"] = <<now>>
    /\ now - since["A"].t0 = windowMs
    /\ resp.ip = "A" /\ Admitted(resp)
    /\ Has(store, "A") /\ Get(store, "A").count = 2

\* C2: the (maxRequests + 1)-th call of that sequence, still within windowMs of
\* the first, is rejected with retryAfter = ceil(blockDurationMs / 1000) and
\* sets blockedUntil = now + blockDurationMs.
C2_RejectedPastMax ==
    [][\A ip \in Clients :
          (Limit(ip) /\ since'[ip].n = maxRequests + 1
                     /\ now - since'[ip].t0 <= windowMs)
          => /\ Rejected(resp')
             /\ IsCeilSeconds(resp'.retryAfter, blockDurationMs)
             /\ Has(store', ip)
             /\ "blockedUntil" \in DOMAIN Get(store', ip)
             /\ Get(store', ip).blockedUntil = now + blockDurationMs]_vars

C2_Witness ==
    /\ maxRequests = 2
    /\ since["A"].n = 3
    /\ lastCall["A"] = <<now>>
    /\ now > since["A"].t0
    /\ resp.ip = "A" /\ Rejected(resp) /\ resp.retryAfter = 2
    /\ Has(store, "A") /\ Get(store, "A").count = 3
    /\ "blockedUntil" \in DOMAIN Get(store, "A")
    /\ Get(store, "A").blockedUntil = now + blockDurationMs

\* C3: a limit() call that finds the client's block still running (now before
\* the record's blockedUntil) is rejected, its retryAfter is at most the
\* retryAfter of the client's previous rejection, and it changes nothing in the
\* store: count, lastRequest and blockedUntil stay as they are.
C3_BlockedCallsFrozen ==
    [][\A ip \in Clients :
          (Limit(ip) /\ ActiveBlock(ip))
          => /\ Rejected(resp')
             /\ resp'.retryAfter <= retry[ip]
             /\ store' = store]_vars

C3_Witness ==
    /\ ActiveBlock("A")
    /\ lastCall["A"] = <<now>>
    /\ Get(store, "A").lastRequest < now
    /\ resp.ip = "A" /\ Rejected(resp)
    /\ resp.retryAfter = 1
    /\ blockDurationMs > MsPerSecond

\* C4 as claimed: whatever the configuration, the first call at or after the
\* end of the client's block resets count to 1 and is admitted.
C4_FreshAfterBlock_AnyConfig ==
    [][\A ip \in Clients :
          (Limit(ip) /\ blockEnd[ip] # <<>> /\ blockEnd[ip][1] <= now)
          => /\ Admitted(resp')
             /\ Get(store', ip).count = 1]_vars

\* C4 as amended: it holds when blockDurationMs > windowMs and maxRequests >= 1,
\* whether or not a sweep cleared or evicted the record in between.
C4_FreshAfterBlock ==
    [][\A ip \in Clients :
          (Limit(ip) /\ blockEnd[ip] # <<>> /\ blockEnd[ip][1] <= now
                     /\ blockDurationMs > windowMs /\ maxRequests >= 1)
          => /\ Admitted(resp')
             /\ Get(store', ip).count = 1]_vars

C4_Witness ==
    /\ blockDurationMs > windowMs
    /\ maxRequests = 2
    /\ retry["A"] > 0
    /\ blockEnd["A"] = <<>>
    /\ lastCall["A"] = <<now>>
    /\ now = blockDurationMs
    /\ resp.ip = "A" /\ Admitted(resp)
    /\ Has(store, "A") /\ Get(store, "A").count = 1
    /\ "blockedUntil" \in DOMAIN Get(store, "A")

\* C5 as claimed: a call more than windowMs after the client's previous call
\* leaves count = 1, blocked or not.
C5_ResetAfterGap_EvenBlocked ==
    [][\A ip \in Clients :
          (Limit(ip) /\ lastCall[ip] # <<>> /\ now - lastCall[ip][1] > windowMs)
          => Get(store', ip).count = 1]_vars

\* C5 as amended: a call more than windowMs after the client's previous call
\* leaves count = 1 unless the call finds the client's block still running.
C5_ResetAfterGap ==
    [][\A ip \in Clients :
          (Limit(ip) /\ lastCall[ip] # <<>> /\ now - lastCall[ip][1] > windowMs
                     /\ ~ActiveBlock(ip))
          => Get(store', ip).count = 1]_vars

C5_Witness ==
    /\ maxRequests = 2
    /\ since["A"].n = 3
    /\ since["A"].t0 + windowMs < now
    /\ lastCall["A"] = <<now>>
    /\ retry["A"] = 0
    /\ Has(store, "A") /\ Get(store, "A").count = 1

\* C6 (SpecSweep): a sweep of a store with more than maxEntries entries leaves
\* exactly maxEntries of them, and no evicted entry is more recent than a
\* retained one.
C6_SweepKeepsMostRecent ==
    [][(Cleanup /\ Len(store) > maxEntries)
          => /\ Len(store') = maxEntries
             /\ Keys(store') \subseteq Keys(store)
             /\ \A k \in Keys(store'), e \in Keys(store) \ Keys(store') :
                    Get(store, k).lastRequest >= Get(store, e).lastRequest]_vars

C6_Witness ==
    /\ maxEntries = 2
    /\ Len(store) = 2
    /\ resp.ip = "A"
    /\ ~Has(store, "A")
    /\ \A i \in 1..Len(store) : store[i][2].lastRequest = now /\ now > 0

\* C7 as claimed (SpecTwin): client B gets the same decisions whether or not
\* the other clients call: the limiter that sees all clients and the one that
\* sees only B answer B's latest call alike.
C7_Independent == resp.ip = "B" => resp = soloResp

\* The expected outcome of the scripted client's k-th call, the 12th call's
\* retryAfter being r12.
Expected(k, r12) ==
    CASE k <= 10 -> Admitted(resp') /\ Get(store', "A").count = k
      [] k = 11 -> Rejected(resp') /\ resp'.retryAfter = 3600
      [] k = 12 -> Rejected(resp') /\ resp'.retryAfter = r12
      [] OTHER -> Admitted(resp') /\ Get(store', "A").count = 1

\* C8 as claimed (SpecScenario): the request at t = 1000 gets retryAfter 3599.
C8_Scenario_3599 == [][ScriptedLimit => Expected(pc, 3599)]_vars

\* C8 as amended (SpecScenario): with maxRequests = 10, windowMs = 60000 and
\* blockDurationMs = 3600000, ten requests at t = 0 are admitted with counts
\* 1..10, the 11th at t = 500 is rejected with retryAfter 3600, a request at
\* t = 1000 is rejected with retryAfter 3600 = ceil(3599500 / 1000), and a
\* request at t = 3600600 is admitted with count 1.
C8_Scenario == [][ScriptedLimit => Expected(pc, 3600)]_vars

C8_Witness ==
    /\ pc = Len(Script) + 1
    /\ now = 3600600
    /\ resp.ip = "A" /\ Admitted(resp)
    /\ Get(store, "A").count = 1
    /\ Get(store, "A").lastRequest = now

\* C9 as claimed: the store never holds more than maxEntries entries.
C9_StoreBounded == Len(store) <= maxEntries

\* C10 as claimed (SpecPace): a client that never makes more than maxRequests
\* calls within any windowMs is never rejected.
C10_PacedNeverRejected ==
    (resp.ip # "" /\ paced[resp.ip]) => Admitted(resp)

\* ------------------------------------------------------- claims C11..C20

\* The number a sequence of decimal digits stands for.
DigitValue(c) == CHOOSE d \in 0..9 : DigitChar[d] = c

RECURSIVE ParseDecimal(_)
ParseDecimal(h) ==
    IF h = <<>> THEN 0
    ELSE 10 * ParseDecimal(SubSeq(h, 1, Len(h) - 1)) + DigitValue(h[Len(h)])

IsDecimal(h) ==
    /\ Len(h) >= 1
    /\ \A i \in 1..Len(h) : \E d \in 0..9 : h[i] = DigitChar[d]
    /\ Len(h) > 1 => h[1] # "0"

\* C11 (SpecScenario): a limit() call that does not call next() sends exactly
\* one response: status 429, a Retry-After header that is the decimal form of
\* retryAfter, the whole seconds (rounded up) until the client's blockedUntil,
\* and a body whose retryAfterSeconds is that retryAfter and whose error is
\* "Too many requests, please try again later"; a call that calls next() sends
\* no response.
C11_RejectionResponse ==
    [][\A ip \in Clients : LimitCall(ip) =>
          IF resp'.next
          THEN resp'.sent = 0 /\ resp'.status # 429
          ELSE /\ resp'.sent = 1
               /\ resp'.status = 429
               /\ IsCeilSeconds(resp'.retryAfter, Get(store', ip).blockedUntil - now)
               /\ IsDecimal(resp'.header)
               /\ ParseDecimal(resp'.header) = resp'.retryAfter
               /\ resp'.error = "Too many requests, please try again later"]_vars

C11_Witness ==
    /\ Rejected(resp)
    /\ resp.sent = 1
    /\ resp.header = <<"3", "6", "0", "0">>
    /\ resp.retryAfter = 3600
    /\ resp.ip = "A" /\ pc = 13

\* C16: a limit() call that finds a block still in the future (blockedUntil
\* set, blockedUntil > now) is rejected with retryAfter = ceil((blockedUntil -
\* now) / 1000) and leaves the store as it was; a call at now >= blockedUntil
\* passes the block check: it is counted (lastRequest becomes now, count
\* becomes 1 or count + 1) and is rejected only if that count exceeds
\* maxRequests.
C16_BlockCheck ==
    [][\A ip \in Clients :
          (Limit(ip) /\ Has(store, ip) /\ BlockedUntilSet(Get(store, ip)))
          => LET client == Get(store, ip)
                 after == Get(store', ip)
             IN  IF client.blockedUntil > now
                 THEN /\ Rejected(resp')
                      /\ IsCeilSeconds(resp'.retryAfter, client.blockedUntil - now)
                      /\ store' = store
                 ELSE /\ after.lastRequest = now
                      /\ after.count = IF now - client.lastRequest > windowMs
                                       THEN 1 ELSE client.count + 1
                      /\ Rejected(resp') <=> after.count > maxRequests]_vars

\* Client A was rejected by the block check with 1 second left of a 1500 ms
\* block, and its call after the block's end has been counted and admitted.
C16_Witness ==
    /\ blockDurationMs = 1500
    /\ retry["A"] = 1
    /\ resp.ip = "A" /\ Admitted(resp)
    /\ Has(store, "A")
    /\ BlockedUntilSet(Get(store, "A"))
    /\ Get(store, "A").blockedUntil <= now
    /\ Get(store, "A").lastRequest = now

\* C17: every limit() call that does not find a block still in the future
\* writes the client's record: a new record with count 1 and lastRequest now
\* if there was none, otherwise count 1 when now - lastRequest > windowMs and
\* count + 1 when not, and lastRequest now; so does the call rejected for
\* exceeding maxRequests. No record is added or removed besides, and no other
\* client's record changes.
C17_CallWritesOwnRecord ==
    [][\A ip \in Clients :
          (Limit(ip) /\ ~ActiveBlock(ip))
          => /\ Keys(store') = Keys(store) \cup {ip}
             /\ Get(store', ip).lastRequest = now
             /\ Get(store', ip).count =
                   IF ~Has(store, ip) THEN 1
                   ELSE IF now - Get(store, ip).lastRequest > windowMs THEN 1
                   ELSE Get(store, ip).count + 1
             /\ \A other \in Keys(store) \ {ip} :
                   Get(store', other) = Get(store, other)]_vars

\* The call of client A that exceeded maxRequests was counted, at a time when
\* client B had a record too.
C17_Witness ==
    /\ resp.ip = "A" /\ Rejected(resp)
    /\ now > 0
    /\ maxRequests = 2
    /\ Has(store, "A")
    /\ Get(store, "A").count = 3
    /\ Get(store, "A").lastRequest = now
    /\ Get(store, "A").blockedUntil = now + blockDurationMs
    /\ Has(store, "B")

\* C18: a sweep removes blockedUntil from every record it keeps whose
\* blockedUntil <= now, leaving the record's count and lastRequest as they
\* were; a record it keeps whose blockedUntil is still in the future, or that
\* has none, is left exactly as it was.
C18_SweepClearsExpiredOnly ==
    [][Cleanup =>
          \A ip \in Keys(store') :
              LET client == Get(store, ip)
                  after == Get(store', ip)
              IN  IF "blockedUntil" \in DOMAIN client /\ client.blockedUntil <= now
                  THEN /\ DOMAIN after = DOMAIN client \ {"blockedUntil"}
                       /\ after.count = client.count
                       /\ after.lastRequest = client.lastRequest
                  ELSE after = client]_vars

\* A sweep has cleared the expired block of client A, whose count still
\* exceeds maxRequests, and has left client B's block, which is in the future.
C18_Witness ==
    /\ Has(store, "A")
    /\ "blockedUntil" \notin DOMAIN Get(store, "A")
    /\ Get(store, "A").count > maxRequests
    /\ blockEnd["A"] # <<>> /\ blockEnd["A"][1] <= now
    /\ ActiveBlock("B")

\* C19: a record leaves the store only in a sweep that finds more than
\* maxEntries records: limit() removes none, a sweep over at most maxEntries
\* records removes none, and the passage of time removes none.
C19_RemovedOnlyBySweepOverCapacity ==
    [][\/ Keys(store) \subseteq Keys(store')
       \/ Cleanup /\ Len(store) > maxEntries]_vars

\* With room for both clients, a sweep has cleared client A's expired block
\* and the record client B had before that is still there.
C19_Witness ==
    /\ maxEntries = 2
    /\ Keys(store) = {"A", "B"}
    /\ "blockedUntil" \notin DOMAIN Get(store, "A")
    /\ Get(store, "A").count > maxRequests
    /\ blockEnd["A"] # <<>>
    /\ Get(store, "B").lastRequest < blockEnd["A"][1]
    /\ now > Get(store, "A").lastRequest

\* C20 (SpecLazy): clearing expired blocks in the sweep does not change any
\* decision: of two limiters that receive the same calls and sweeps, one
\* sweeping as cleanup() does and one only evicting, the latest call got the
\* same response from both, both keep the same clients, and a call of any
\* client now would get the same response from both.
C20_ClearingNotNeeded ==
    /\ resp = soloResp
    /\ Keys(store) = Keys(solo)
    /\ \A ip \in Clients :
          LimitResult(store, ip, now, maxRequests, windowMs, blockDurationMs).resp
            = LimitResult(solo, ip, now, maxRequests, windowMs, blockDurationMs).resp

\* Client A's expired block was cleared in one limiter and not in the other,
\* and its next call has been admitted by both.
C20_Witness ==
    /\ resp.ip = "A" /\ Admitted(resp) /\ Admitted(soloResp)
    /\ Has(store, "A") /\ Has(solo, "A")
    /\ "blockedUntil" \notin DOMAIN Get(store, "A")
    /\ "blockedUntil" \in DOMAIN Get(solo, "A")
    /\ Get(solo, "A").blockedUntil <= now
    /\ Get(store, "A").lastRequest = now
    /\ Get(solo, "A").lastRequest = now

\* The count limit() gives the record of ip for a call now.
CountedNow(ip) ==
    IF ~Has(store, ip) THEN 1
    ELSE IF now - Get(store, ip).lastRequest > windowMs THEN 1
    ELSE Get(store, ip).count + 1

\* C13 (SpecLife): once shutdown() has been called no sweep runs (the store
\* changes only in limit() calls), and a limit() call made after it still
\* answers, by the rule in force before: rejected with the seconds left when
\* the client's block is in the future, rejected with the block's length when
\* the call's count exceeds maxRequests, admitted otherwise.
C13_ShutdownStopsSweeps ==
    [][/\ ~lateSweep'
       /\ down => (store' = store \/ \E ip \in Clients : LifeLimit(ip))
       /\ \A ip \in Clients :
             (down /\ LifeLimit(ip))
             => /\ resp'.ip = ip
                /\ IF ActiveBlock(ip)
                   THEN /\ Rejected(resp')
                        /\ IsCeilSeconds(resp'.retryAfter,
                                         Get(store, ip).blockedUntil - now)
                   ELSE IF CountedNow(ip) > maxRequests
                   THEN /\ Rejected(resp')
                        /\ IsCeilSeconds(resp'.retryAfter, blockDurationMs)
                   ELSE Admitted(resp')]_vars

\* After shutdown() a call has been answered and the store, not swept any
\* more, holds more than maxEntries records, one with an expired block.
C13_Witness ==
    /\ down /\ lateCall /\ ~lateSweep
    /\ ~cleanupInterval.active
    /\ Len(store) > maxEntries
    /\ resp.ip = "A" /\ Admitted(resp)
    /\ Has(store, "B")
    /\ "blockedUntil" \in DOMAIN Get(store, "B")
    /\ Get(store, "B").blockedUntil <= now

\* The route registered for a request's method and path, if any.
HandlerFor(r) ==
    CASE r.method = "GET" /\ r.path = "/" -> <<"get">>
      [] r.method = "POST" /\ r.path = "/" -> <<"post">>
      [] r.method = "DELETE" /\ r.path = "/:id" -> <<"delete">>
      [] r.method = "PATCH" /\ r.path = "/:id" -> <<"patch">>
      [] OTHER -> <<>>

\* C12 (SpecRouter): for every request to the transactions router limit()
\* runs exactly once, before anything else, and decides; a rejected request
\* reaches no route handler, and an admitted request reaches the handler of
\* its route exactly once (none when no route matches it).
C12_LimiterBeforeHandlers ==
    req # NoRequest =>
        /\ served # <<>> /\ served[1] = "limit"
        /\ Cardinality({i \in 1..Len(served) : served[i] = "limit"}) = 1
        /\ Admitted(resp) \/ Rejected(resp)
        /\ Rejected(resp) => served = <<"limit">>
        /\ Admitted(resp) => served = <<"limit">> \o HandlerFor(req)

\* A DELETE of peer p has been rejected before its handler, after a request
\* of peer q was let through.
C12_Witness ==
    /\ req.method = "DELETE" /\ req.path = "/:id"
    /\ req.remoteAddress = << <<"p">> >>
    /\ Rejected(resp)
    /\ served = <<"limit">>
    /\ Has(store, <<"q">>)

\* id is what is left of the characters of h before its first comma when the
\* white space at both ends is taken off.
IsFirstValueOf(id, h) ==
    \E k \in 0..Len(h), i \in 0..Len(h), j \in 0..Len(h) :
        /\ k = Len(h) \/ h[k + 1] = ","
        /\ \A n \in 1..k : h[n] # ","
        /\ i + Len(id) + j = k
        /\ \A n \in 1..i : h[n] \in WhiteSpace
        /\ \A n \in 1..Len(id) : h[i + n] = id[n]
        /\ \A n \in (i + Len(id) + 1)..k : h[n] \in WhiteSpace
        /\ id # <<>> => (id[1] \notin WhiteSpace /\ id[Len(id)] \notin WhiteSpace)

\* C14 (SpecIp): a request is counted under the first comma-separated value of
\* its x-forwarded-for header (white space around it taken off) when the
\* header is present, otherwise under the socket's peer address when there is
\* one, otherwise under "unknown".
C14_ClientIdentifier ==
    served # <<>> =>
        /\ Keys(store) = {resp.ip}
        /\ IF req.forwarded # <<>>
           THEN IsFirstValueOf(resp.ip, req.forwarded[1])
           ELSE IF req.remoteAddress \notin {<<>>, << <<>> >>}
           THEN resp.ip = req.remoteAddress[1]
           ELSE resp.ip = <<"u", "n", "k", "n", "o", "w", "n">>

\* A request from peer p that carries the header " a," has been counted as a.
C14_Witness ==
    /\ req.forwarded = << <<" ", "a", ",">> >>
    /\ req.remoteAddress = << <<"p">> >>
    /\ Rejected(resp)
    /\ resp.ip = <<"a">>
    /\ Keys(store) = {<<"a">>}

\* The limiter's four settings are the constructor's first four arguments,
\* or 10, 60000, 3600000 and 5000 where an argument is not given.
SettingsAsGiven ==
    /\ maxRequests = IF Len(args) >= 1 THEN args[1] ELSE 10
    /\ windowMs = IF Len(args) >= 2 THEN args[2] ELSE 60000
    /\ blockDurationMs = IF Len(args) >= 3 THEN args[3] ELSE 3600000
    /\ maxEntries = IF Len(args) >= 4 THEN args[4] ELSE 5000

\* C15 as claimed (SpecConstruct): a fifth argument, sweepInterval, sets the
\* period between sweeps, 300000 ms being its default.
C15_FiveParameters ==
    /\ []SettingsAsGiven
    /\ [][TimerFires =>
             sweepDue' - now = IF Len(args) >= 5 THEN args[5] ELSE 300000]_vars

\* C15 as amended (SpecConstruct): the limiter is configured at construction
\* by four numeric parameters maxRequests, windowMs, blockDurationMs and
\* maxEntries with defaults 10, 60000, 3600000 and 5000; the period between
\* sweeps is 300000 ms whatever the arguments: sweeps run at 300000, 600000,
\* ... ms after construction.
C15_FourParameters ==
    /\ [](SettingsAsGiven /\ cleanupInterval.every = 300000)
    /\ [][TimerFires =>
             /\ now > 0 /\ now % 300000 = 0
             /\ sweepDue' - now = 300000]_vars

\* A limiter built with five arguments, the fifth being 1, has swept twice,
\* at 300000 and at 600000 ms.
C15_Witness ==
    /\ Len(args) = 5 /\ args[5] = 1
    /\ maxRequests = args[1] /\ maxEntries = args[4]
    /\ now = 600000
    /\ sweepDue = 900000
    /\ Len(store) = 1

\* ------------------------------------------------------- claims C21..C30

\* C21 (SpecLoop): limit() and cleanup() never overlap in effect: whenever no
\* callback is in progress the store and the latest response are those of a
\* limiter that handles every call and every sweep in a single step, no
\* limit() call fails on a record a sweep has removed under it, and every
\* limit() call that passes the block check leaves count one above what the
\* store held (or at 1 for a new client or after a gap > windowMs): no
\* update is lost.
C21_CallbacksDoNotOverlap ==
    /\ [](/\ resp.status # 500
          /\ running = <<>> => (store = solo /\ resp = soloResp))
    /\ [][\A i \in 1..Len(running) :
             (StepLimit(i) /\ running[i].pc = "touch")
             => Get(store', running[i].ip).count =
                   IF ~Has(store, running[i].ip) THEN 1
                   ELSE IF running[i].t - Get(store, running[i].ip).lastRequest > windowMs
                   THEN 1
                   ELSE Get(store, running[i].ip).count + 1]_vars

\* A sweep is half done: it has evicted down to maxEntries records and the
\* expired block of client A is not cleared yet; no limit() call is running.
C21_Witness ==
    /\ Len(running) = 1
    /\ running[1].kind = "cleanup" /\ running[1].pc = "clear"
    /\ Len(store) = maxEntries
    /\ Len(solo) = Len(store) /\ store # solo
    /\ Has(store, "A")
    /\ Get(store, "A").count > maxRequests

\* Both stores hold the same records, whatever their order.
SameRecords(s1, s2) ==
    /\ Keys(s1) = Keys(s2)
    /\ \A k \in Keys(s1) : Get(s1, k) = Get(s2, k)

\* The ranks cap and cap + 1 by recency are not shared by entries with the
\* same lastRequest.
NoTieAtCut(s, cap) ==
    \A K \in SUBSET Keys(s) :
        (Cardinality(K) = cap /\ \A k \in K, e \in Keys(s) \ K :
                                    Get(s, k).lastRequest >= Get(s, e).lastRequest)
        => \A k \in K, e \in Keys(s) \ K :
               Get(s, k).lastRequest > Get(s, e).lastRequest

\* C22 as claimed (SpecOrder): two stores that hold the same records in
\* different insertion orders hold the same set of entries after a sweep.
C22_OrderIrrelevant ==
    [][(TwinCleanup /\ SameRecords(store, solo))
          => SameRecords(store', solo')]_vars

\* C22 as amended (SpecOrder): two stores that hold the same records in
\* different insertion orders hold the same set of entries after a sweep
\* when no entry that is evicted has the same lastRequest as one that is
\* kept.
C22_OrderIrrelevantWithoutTies ==
    [][(TwinCleanup /\ SameRecords(store, solo) /\ NoTieAtCut(store, maxEntries))
          => SameRecords(store', solo')]_vars

\* Two stores swept down to the same two clients, whose lastRequest differ,
\* still hold them in different orders.
C22_Witness ==
    /\ maxEntries = 2
    /\ Len(store) = 2
    /\ SameRecords(store, solo)
    /\ store # solo
    /\ store[1][2].lastRequest # store[2][2].lastRequest

\* C23 as claimed (SpecUnknown): the requests without an address share the
\* record "unknown": once one of them has exceeded maxRequests, every request
\* without an address made before that block's end is rejected.
C23_UnknownBlockedTogether ==
    [][\A r \in Unaddressed :
          (Serve(r) /\ Has(ends, Unknown) /\ now < Get(ends, Unknown))
          => Rejected(resp')]_vars

\* C24 (SpecAny): limit() has no error outcome: whatever the request's
\* header (absent, empty, any string) and peer address, the call either calls
\* next() and sends nothing or sends one 429 and does not call next(), and
\* never ends without either; a sweep can run in every state and leaves at
\* most maxEntries records, each with count >= 1.
C24_NoErrorOutcome ==
    /\ [](/\ ENABLED Cleanup
          /\ served # <<>> =>
                /\ Admitted(resp) # Rejected(resp)
                /\ resp.status # 500
                /\ resp.sent = IF resp.next THEN 0 ELSE 1)
    /\ [][Cleanup =>
             /\ Len(store') <= maxEntries
             /\ \A i \in 1..Len(store') : store'[i][2].count >= 1]_vars

\* A request whose header is present and empty was counted under the empty
\* identifier and rejected, and a sweep has since emptied the store.
C24_Witness ==
    /\ req.forwarded = << <<>> >>
    /\ maxEntries = 0
    /\ served = <<"limit">>
    /\ Rejected(resp)
    /\ resp.ip = <<>>
    /\ store = <<>>
    /\ ends # <<>>

\* C25 as claimed: once a limit() call has blocked a client until
\* blockEnd[ip], every call of that client before that time is rejected,
\* whatever the other client does and whatever sweeps run in between.
C25_BlockLastsFullDuration ==
    [][\A ip \in Clients :
          (Limit(ip) /\ blockEnd[ip] # <<>> /\ now < blockEnd[ip][1])
          => Rejected(resp')]_vars

\* C26 as claimed (SpecAdmit): with blockDurationMs > windowMs, no client has
\* more than maxRequests of its calls admitted within any windowMs.
C26_AdmittedPerWindow ==
    blockDurationMs > windowMs => \A ip \in Pair : paced[ip]

\* C27: when blockDurationMs > windowMs, every record in the store has
\* 1 <= count <= maxRequests + 1.
C27_CountInRange ==
    blockDurationMs > windowMs =>
        \A i \in 1..Len(store) :
            store[i][2].count >= 1 /\ store[i][2].count <= maxRequests + 1

\* With blockDurationMs > windowMs, client A has called again after its
\* block ended, count going from maxRequests + 1 back to 1, while client B's
\* count is at maxRequests + 1.
C27_Witness ==
    /\ blockDurationMs > windowMs
    /\ maxRequests = 2
    /\ Has(store, "A") /\ Has(store, "B")
    /\ Get(store, "A").count = 1
    /\ "blockedUntil" \in DOMAIN Get(store, "A")
    /\ Get(store, "A").blockedUntil <= Get(store, "A").lastRequest
    /\ Get(store, "B").count = 3

\* After the step the record of ip carries a blockedUntil that it did not
\* carry before.
NewlyBlocked(ip) ==
    /\ Has(store', ip)
    /\ "blockedUntil" \in DOMAIN Get(store', ip)
    /\ \/ ~Has(store, ip)
       \/ "blockedUntil" \notin DOMAIN Get(store, ip)
       \/ Get(store, ip).blockedUntil # Get(store', ip).blockedUntil

\* C28: in every reachable state a record whose blockedUntil > now has
\* count > maxRequests and blockedUntil = lastRequest + blockDurationMs; and
\* blockedUntil is written only by a limit() call of that client, made now,
\* whose count exceeds maxRequests.
C28_ActiveBlockShape ==
    /\ [](\A ip \in Clients :
             ActiveBlock(ip)
             => /\ Get(store, ip).count > maxRequests
                /\ Get(store, ip).blockedUntil
                      = Get(store, ip).lastRequest + blockDurationMs)
    /\ [][\A ip \in Clients :
             NewlyBlocked(ip)
             => /\ Limit(ip)
                /\ Rejected(resp')
                /\ Get(store', ip).count > maxRequests
                /\ Get(store', ip).lastRequest = now
                /\ Get(store', ip).blockedUntil = now + blockDurationMs]_vars

\* Client A, blocked for 1500 ms, has been turned away with 1 second to go:
\* its record is as the blocking call left it.
C28_Witness ==
    /\ blockDurationMs = 1500
    /\ resp.ip = "A" /\ Rejected(resp) /\ resp.retryAfter = 1
    /\ ActiveBlock("A")
    /\ now > Get(store, "A").lastRequest
    /\ Get(store, "A").count = maxRequests + 1

\* C29: when maxRequests >= 1, a limit() call of a client that has no record
\* in the store (never seen, or evicted by a sweep) is admitted and leaves
\* the record count = 1, lastRequest = now, without blockedUntil.
C29_FirstCallAdmitted ==
    [][\A ip \in Clients :
          (Limit(ip) /\ maxRequests >= 1 /\ ~Has(store, ip))
          => /\ Admitted(resp')
             /\ Has(store', ip)
             /\ Get(store', ip) = [count |-> 1, lastRequest |-> now]]_vars

\* Client A, rejected earlier at time 0, has lost its record to a sweep and
\* has been admitted again at time 0 as a new client.
C29_Witness ==
    /\ maxRequests >= 1
    /\ now = 0
    /\ retry["A"] > 0
    /\ resp.ip = "A" /\ Admitted(resp)
    /\ Has(store, "A")
    /\ Get(store, "A") = [count |-> 1, lastRequest |-> 0]

\* C30: every retryAfter answered with a rejection is an integer with
\* 1 <= retryAfter <= ceil(blockDurationMs / 1000).
C30_RetryAfterRange ==
    resp.status = 429 =>
        /\ resp.retryAfter \in Int
        /\ resp.retryAfter >= 1
        /\ (resp.retryAfter - 1) * 1000 < blockDurationMs

\* Client A has been turned away by the block check with the largest
\* retryAfter, 2 for a block of 1500 ms.
C30_Witness ==
    /\ blockDurationMs = 1500
    /\ resp.ip = "A" /\ Rejected(resp) /\ resp.retryAfter = 2
    /\ Has(store, "A")
    /\ Get(store, "A").count = maxRequests + 1
    /\ since["A"].n = maxRequests + 2

\* --------------- SpecForward: one peer, several x-forwarded-for values

\* The x-forwarded-for headers one peer sends: "a", "b", "a,b", "b,a".
ForwardedHeaders ==
    {<<"a">>, <<"b">>, <<"a", ",", "b">>, <<"b", ",", "a">>}

\* Requests of the one peer p, each with one of these headers.
ForwardedRequests ==
    [forwarded : {<<h>> : h \in ForwardedHeaders},
     remoteAddress : {<< <<"p">> >>},
     method : {"GET"}, path : {"/"}]

\* The identifier whose decisions are compared.
Watched == <<"a">>

InitForward ==
    /\ \E cap \in {1, 2} : Built(<<1, 1000, 1500, cap>>)
    /\ Fresh
    /\ req = NoRequest

\* A request arrives at the router; a second limiter, which is sent only the
\* requests counted as Watched, handles it too when it is one of them.
TwinServe(r) ==
    LET out == RunFrom(1, r, store, NoResp)
    IN  /\ store' = out.store
        /\ resp' = out.resp
        /\ served' = out.served
        /\ req' = r
        /\ ends' = IF out.resp.status = 429 /\ ~IsBlocked(store, out.resp.ip, now)
                    THEN MapSet(ends, out.resp.ip,
                                Get(out.store, out.resp.ip).blockedUntil)
                    ELSE ends
        /\ IF getClientIp(r) = Watched
           THEN LET alone == RunFrom(1, r, solo, NoResp)
                IN  /\ solo' = alone.store
                    /\ soloResp' = alone.resp
           ELSE UNCHANGED twin
        /\ UNCHANGED <<config, now, history, pace, pc, life, built, loop, db>>

NextForward ==
    \/ \E r \in ForwardedRequests : TwinServe(r)
    \/ TwinCleanup
    \/ Tick

SpecForward == InitForward /\ [][NextForward]_vars

\* The first comma-separated value of header h, as text.
FirstValue(h) == Trim(FirstField(h))

\* C31 as claimed (SpecForward): requests of one peer whose x-forwarded-for
\* headers have different first values are counted against different
\* records, and the decision on a request does not depend on the records of
\* the other values: the limiter that is sent every request and the one that
\* is sent only the requests with first value "a" answer the latest such
\* request alike.
C31_ForwardedIndependent ==
    /\ \A r1, r2 \in ForwardedRequests :
           FirstValue(r1.forwarded[1]) # FirstValue(r2.forwarded[1])
               => getClientIp(r1) # getClientIp(r2)
    /\ (served # <<>> /\ getClientIp(req) = Watched) => resp = soloResp

\* ------------------- SpecDelete: concurrent DELETE /:id and the table

\* The ids crypto.randomUUID() can return.
Ids == {"t1", "t2"}

\* prisma.transactionMovement.findUnique({ where: { id } }): the row, or
\* null when there is none.
findUnique(rows, id) == IF id \in rows THEN <<id>> ELSE <<>>

\* transactionExists(id): !!transaction.
transactionExists(rows, id) == findUnique(rows, id) # <<>>

\* deleteTransaction(id): prisma.transactionMovement.delete({ where: { id } })
\* removes the row, and rejects when there is no row to delete.
deleteTransaction(rows, id) ==
    IF id \in rows
    THEN [rows |-> rows \ {id}, thrown |-> FALSE]
    ELSE [rows |-> rows, thrown |-> TRUE]

\* handlePrismaError(res, operation, error): res.status(500).
handlePrismaError == 500

\* POST /: createTransaction stores a row under a new id.
Post ==
    /\ \E id \in Ids \ issued :
           /\ issued' = issued \cup {id}
           /\ table' = table \cup {id}
    /\ UNCHANGED <<config, store, now, resp, history, twin, pace, pc, http, life, built, loop>>
    /\ UNCHANGED deleting

\* DELETE /:id arrives at handler i: it calls transactionExists(id) and
\* awaits the answer.
BeginDelete(i, id) ==
    /\ deleting[i].at = "idle"
    /\ deleting' = [deleting EXCEPT ![i] = [Idle EXCEPT !.id = id, !.at = "exists"]]
    /\ UNCHANGED <<config, store, now, resp, history, twin, pace, pc, http, life, built, loop>>
    /\ UNCHANGED <<table, issued>>

\* The existence check of handler i is answered: 404 when there is no such
\* row; otherwise the handler calls deleteTransaction(id) and awaits it.
ExistsReturns(i) ==
    /\ deleting[i].at = "exists"
    /\ deleting' = [deleting EXCEPT ![i] =
           IF transactionExists(table, @.id)
           THEN [@ EXCEPT !.at = "delete"]
           ELSE [@ EXCEPT !.at = "done", !.status = 404, !.absent = TRUE]]
    /\ UNCHANGED <<config, store, now, resp, history, twin, pace, pc, http, life, built, loop>>
    /\ UNCHANGED <<table, issued>>

\* The delete of handler i is attempted: 204 when it removes the row; when
\* it rejects, the catch block answers through handlePrismaError.
DeleteReturns(i) ==
    /\ deleting[i].at = "delete"
    /\ LET out == deleteTransaction(table, deleting[i].id)
       IN  /\ table' = out.rows
           /\ deleting' = [deleting EXCEPT ![i] =
                  [@ EXCEPT !.at = "done",
                            !.status = IF out.thrown THEN handlePrismaError ELSE 204,
                            !.absent = deleting[i].id \notin table]]
    /\ UNCHANGED <<config, store, now, resp, history, twin, pace, pc, http, life, built, loop>>
    /\ UNCHANGED issued

InitDelete ==
    /\ Built(<<RouterMaxRequests, RouterWindowMs, RouterBlockDurationMs>>)
    /\ Fresh
    /\ req = NoRequest

NextDelete ==
    \/ Post
    \/ \E i \in Slots, id \in Ids : BeginDelete(i, id)
    \/ \E i \in Slots : ExistsReturns(i)
    \/ \E i \in Slots : DeleteReturns(i)

SpecDelete == InitDelete /\ [][NextDelete]_vars

\* C32 as claimed (SpecDelete): a DELETE /:id whose id is not in the table
\* when the existence check, or else the delete, is carried out is answered
\* with 404, never with 500, however concurrent DELETE requests for the same
\* id interleave.
C32_MissingIsNotFound ==
    \A i \in Slots :
        (deleting[i].at = "done" /\ deleting[i].absent)
            => deleting[i].status = 404

====
